---- MODULE Spec2Model ----
(***************************************************************************)
(* Model of the moneturn catalog backend: the relational store behind the *)
(* Prisma client (authors, books, the books.authorId foreign key), the    *)
(* AuthorService / BookService / SearchService methods and the Fastify    *)
(* route handlers that map their outcomes to HTTP status codes.           *)
(*                                                                         *)
(* Every handler runs on the Node event loop: it is atomic between two    *)
(* awaits, and the store is touched only by the awaited Prisma calls.  A  *)
(* handler with one Prisma call is one action; AuthorService.delete and   *)
(* SearchService.search await two calls and are two actions each, with    *)
(* the request parked in pend between them.                               *)
(*                                                                         *)
(* Four specifications share the actions.  Spec: the catalog requests     *)
(* with bodies that carry the properties the route schemas declare, and   *)
(* a search request without q.  SpecColumns: the catalog requests with    *)
(* well-formed bodies, some of which name further columns of the tables.  *)
(* SpecFaults: Spec with a database server that comes and goes.           *)
(* SpecSearch: the search route over every short query.                   *)
(***************************************************************************)
EXTENDS Integers, Sequences, FiniteSets, TLC

VARIABLES
    authors,      \* table "authors": id -> [name, createdAt, updatedAt]
    books,        \* table "books": id -> [title, year, authorId, createdAt, updatedAt]
    nextAuthorId, \* autoincrement sequence of authors.id
    nextBookId,   \* autoincrement sequence of books.id
    now,          \* logical clock behind now() / @updatedAt
    pend,         \* requests parked at an await between two Prisma calls
    query,        \* the q parameter clients send to GET /api/search
    db,           \* "up" or "down": whether the database server can be reached
    deleted,      \* history: the ids of the Authors whose delete was answered 200
    last,         \* what the latest handler step did: request, Prisma calls, reply
    ui            \* the state of the pages of the web client

vars == <<authors, books, nextAuthorId, nextBookId, now, pend, query, db, deleted, last, ui>>

(* the variables of the server *)
server == <<authors, books, nextAuthorId, nextBookId, now, pend, query, db, deleted, last>>

----------------------------------------------------------------------------
(* Bounds *)

MaxClock == 4      \* number of row writes (create / update) in one behaviour
MaxInflight == 1   \* requests that may be parked between two Prisma calls
MaxQLen == 4       \* longest search query, in characters
MaxSearches == 2   \* searches the results page may have in flight

(* Program constants *)

MinYear == 1000
MaxYear == 9999

----------------------------------------------------------------------------
(* Strings are sequences of one-character strings. *)

Chars == {" ", "A", "1", "."}

DigitChars == <<"0", "1", "2", "3", "4", "5", "6", "7", "8", "9">>

Digits == {DigitChars[i] : i \in 1..Len(DigitChars)}

RECURSIVE StringsUpTo(_)
StringsUpTo(n) ==
    IF n = 0 THEN {<<>>}
    ELSE LET shorter == StringsUpTo(n - 1)
         IN  shorter \cup {Append(s, c) : s \in {t \in shorter : Len(t) = n - 1}, c \in Chars}

(* Option values: {} is "absent / undefined", {v} is "present". *)
None == {}
Some(v) == {v}
Get(o) == CHOOSE v \in o : TRUE

----------------------------------------------------------------------------
(* String.prototype.trim / toLowerCase, substring containment, Number() *)

IsWhite(c) == c = " "

RECURSIVE TrimStart(_)
TrimStart(s) ==
    IF s # <<>> /\ IsWhite(Head(s)) THEN TrimStart(Tail(s)) ELSE s

RECURSIVE TrimEnd(_)
TrimEnd(s) ==
    IF s # <<>> /\ IsWhite(s[Len(s)]) THEN TrimEnd(SubSeq(s, 1, Len(s) - 1)) ELSE s

(* a query used without trim() *)
TrimNothing(s) == s

Trim(s) == TrimEnd(TrimStart(s))

LowerChar(c) == IF c = "A" THEN "a" ELSE c

ToLowerCase(s) == [i \in 1..Len(s) |-> LowerChar(s[i])]

(* s includes q as a contiguous substring *)
Includes(s, q) ==
    \E i \in 0..(Len(s) - Len(q)) : SubSeq(s, i + 1, i + Len(q)) = q

(* Prisma { contains: q, mode: 'insensitive' } *)
ContainsInsensitive(s, q) == Includes(ToLowerCase(s), ToLowerCase(q))

IsDigits(s) == Len(s) >= 1 /\ \A i \in 1..Len(s) : s[i] \in Digits

DigitVal(c) == (CHOOSE i \in 1..Len(DigitChars) : DigitChars[i] = c) - 1

RECURSIVE DigitsVal(_)
DigitsVal(s) ==
    IF s = <<>> THEN 0
    ELSE 10 * DigitsVal(SubSeq(s, 1, Len(s) - 1)) + DigitVal(s[Len(s)])

(* A number is NaN or the decimal m * 10^e with m not divisible by 10. *)
NaN == [nan |-> TRUE, m |-> 0, e |-> 0]

RECURSIVE Num(_, _)
Num(m, e) ==
    IF m = 0 THEN [nan |-> FALSE, m |-> 0, e |-> 0]
    ELSE IF m % 10 = 0 THEN Num(m \div 10, e + 1)
    ELSE [nan |-> FALSE, m |-> m, e |-> e]

(* Index of the first occurrence of c in s, Len(s) + 1 if there is none *)
IndexOf(s, c) ==
    IF \E i \in 1..Len(s) : s[i] = c
    THEN CHOOSE i \in 1..Len(s) : s[i] = c /\ \A j \in 1..(i - 1) : s[j] # c
    ELSE Len(s) + 1

(* Number(str) for a string over Chars (StringToNumber): blanks are        *)
(* stripped, the empty string is 0, a decimal literal                      *)
(* digits[.digits][e digits] or .digits[e digits] is its value, and        *)
(* everything else is NaN.                                                 *)
Number(str) ==
    LET s == Trim(str)
        ePos == IndexOf(s, "e")
        mant == SubSeq(s, 1, ePos - 1)
        expo == SubSeq(s, ePos + 1, Len(s))
        dot == IndexOf(mant, ".")
        ip == SubSeq(mant, 1, dot - 1)
        fp == SubSeq(mant, dot + 1, Len(mant))
        mantOk == IF dot > Len(mant) THEN IsDigits(ip)
                  ELSE \/ IsDigits(ip) /\ (fp = <<>> \/ IsDigits(fp))
                       \/ ip = <<>> /\ IsDigits(fp)
        expOk == ePos > Len(s) \/ IsDigits(expo)
    IN  IF s = <<>> THEN Num(0, 0)
        ELSE IF mantOk /\ expOk
        THEN Num(DigitsVal(ip \o fp), DigitsVal(expo) - Len(fp))
        ELSE NaN

IsNaN(n) == n.nan

RECURSIVE Pow10(_)
Pow10(k) == IF k = 0 THEN 1 ELSE 10 * Pow10(k - 1)

(* The integer n equals the number v *)
NumEquals(n, v) ==
    /\ ~v.nan
    /\ v.e >= 0
    /\ IF v.m = 0 THEN n = 0
       ELSE v.e <= 9 /\ n % Pow10(v.e) = 0 /\ n \div Pow10(v.e) = v.m

(* v is a whole number that fits the 32-bit Int column type *)
MaxInt32 == 2147483647

FitsInt(v) ==
    /\ ~v.nan
    /\ v.e >= 0
    /\ v.e <= 9
    /\ v.m <= MaxInt32 \div Pow10(v.e)

(* Number(str) for a string that may start with a minus sign: the sign    *)
(* and the number behind it.                                               *)
SignedNumber(str) ==
    LET s == Trim(str)
    IN  IF s # <<>> /\ Head(s) = "-"
        THEN [neg |-> TRUE,
              abs |-> IF Tail(s) = <<>> \/ IsWhite(Head(Tail(s))) THEN NaN ELSE Number(Tail(s))]
        ELSE [neg |-> FALSE, abs |-> Number(s)]

(* The schema compiler coerces a string to { type: 'integer' } when        *)
(* data && data == +data && !(data % 1), and assigns +data.                *)
CoerceInteger(str) ==
    LET v == SignedNumber(str)
    IN  [ok |-> str # <<>> /\ ~v.abs.nan /\ v.abs.e >= 0, value |-> v]

RECURSIVE NumDigits(_)
NumDigits(m) == IF m < 10 THEN 1 ELSE 1 + NumDigits(m \div 10)

RECURSIVE LeadingDigit(_)
LeadingDigit(m) == IF m < 10 THEN m ELSE LeadingDigit(m \div 10)

(* parseInt(v, 10) of a whole number v: the number is written out and its  *)
(* leading integer read back; from 1e21 on it is written as d.ddde+NN.     *)
ParseInt(v) ==
    LET n == IF NumDigits(v.abs.m) + v.abs.e > 21
             THEN LeadingDigit(v.abs.m)
             ELSE v.abs.m * Pow10(v.abs.e)
    IN  IF v.neg THEN 0 - n ELSE n

----------------------------------------------------------------------------
(* Request inputs *)

IdInputs == 1..2

(* The :id segment of the URL as the router hands it to the params schema *)
IdParams == {<<"1">>, <<"2">>, <<"0">>, <<"-", "1">>, <<"1", ".", "1">>, <<"A">>}

(* A request body is the parsed JSON object.  The route schemas declare    *)
(* name, respectively title / authorId / year, and do not set              *)
(* additionalProperties, so a body may carry further properties; the ones  *)
(* that name a column of the table (id, createdAt, updatedAt) are kept     *)
(* here, each absent or present.  Timestamps are values of the logical     *)
(* clock; 0 is a time before every row was written.                        *)
AuthorBody(name, id, createdAt, updatedAt) ==
    [name |-> name, id |-> id, createdAt |-> createdAt, updatedAt |-> updatedAt]

BookBody(title, authorId, year, id, createdAt, updatedAt) ==
    [title |-> title, authorId |-> authorId, year |-> year,
     id |-> id, createdAt |-> createdAt, updatedAt |-> updatedAt]

(* a well-formed book body for author a *)
BookFor(a) == BookBody(Some(<<"a">>), Some(a), Some(MinYear), None, None, None)

(* the body carries only properties the route schema declares *)
DeclaredOnly(body) == body.id = None /\ body.createdAt = None /\ body.updatedAt = None

(* Bodies of POST /api/authors and of PUT /api/authors/:id *)
CreateAuthorBodies ==
    {AuthorBody(n, None, None, None) : n \in {None, Some(<<>>), Some(<<"A">>)}}

UpdateAuthorBodies ==
    {AuthorBody(n, None, None, None) : n \in {None, Some(<<>>), Some(<<"a", "1">>)}}

(* Well-formed author bodies that name a column besides name *)
CreateAuthorColumnBodies == {AuthorBody(Some(<<"A">>), Some(1), None, None)}

UpdateAuthorColumnBodies ==
    {AuthorBody(Some(<<"a", "1">>), Some(2), None, None),
     AuthorBody(Some(<<"a", "1">>), None, Some(0), None),
     AuthorBody(Some(<<"a", "1">>), None, None, Some(0))}

Present(body) ==
    (IF body.title = None THEN 0 ELSE 1) + (IF body.authorId = None THEN 0 ELSE 1)
        + (IF body.year = None THEN 0 ELSE 1)

Defects(body) ==
    (IF body.title \in {None, Some(<<>>)} THEN 1 ELSE 0)
        + (IF body.authorId = None THEN 1 ELSE 0)
        + (IF body.year \in {None, Some(MinYear - 1), Some(MaxYear + 1)} THEN 1 ELSE 0)

(* Bodies of POST /api/books: well-formed ones and ones with one field     *)
(* missing, empty or out of range.                                         *)
CreateBookBodies ==
    {body \in [title : {None, Some(<<>>), Some(<<"a">>)},
               authorId : {None} \cup {Some(i) : i \in IdInputs},
               year : {None, Some(MinYear - 1), Some(MinYear), Some(MaxYear + 1)},
               id : {None}, createdAt : {None}, updatedAt : {None}] :
        Defects(body) <= 1}

(* Bodies of PUT /api/books/:id: no field, one field (well-formed or not), *)
(* or all three well-formed.                                               *)
UpdateBookBodies ==
    {body \in [title : {None, Some(<<>>), Some(<<"e">>)},
               authorId : {None} \cup {Some(i) : i \in IdInputs},
               year : {None, Some(MinYear - 1), Some(MaxYear)},
               id : {None}, createdAt : {None}, updatedAt : {None}] :
        Present(body) <= 1 \/ Defects(body) = 0}

(* Well-formed book bodies that name a column besides title, authorId and  *)
(* year                                                                    *)
CreateBookColumnBodies == {BookBody(Some(<<"a">>), Some(1), Some(MinYear), Some(1), None, None)}

UpdateBookColumnBodies ==
    {BookBody(None, None, Some(MaxYear), Some(2), None, None),
     BookBody(None, None, Some(MaxYear), None, Some(0), None),
     BookBody(None, None, Some(MaxYear), None, None, Some(0))}

----------------------------------------------------------------------------
(* Request-shape validation (the route schemas) *)

ValidAuthorBody(body) ==
    /\ body.name # None
    /\ Len(Get(body.name)) >= 1

(* a book schema without minimum and maximum on year *)
BookFieldsOkNoRange(body) == body.title # None => Len(Get(body.title)) >= 1

BookFieldsOk(body) ==
    /\ body.title # None => Len(Get(body.title)) >= 1
    /\ body.year # None => (Get(body.year) >= MinYear /\ Get(body.year) <= MaxYear)

ValidBookBody(body) ==
    /\ BookFieldsOk(body)
    /\ body.title # None
    /\ body.authorId # None
    /\ body.year # None

(* a PUT body schema without the anyOf of required fields *)
ValidBookUpdateBodyNoAnyOf(body) == BookFieldsOk(body)

ValidBookUpdateBody(body) ==
    /\ BookFieldsOk(body)
    /\ (body.title # None \/ body.authorId # None \/ body.year # None)

----------------------------------------------------------------------------
(* The store: Prisma calls against the two tables *)

AuthorIds == DOMAIN authors
BookIds == DOMAIN books

BooksOf(a) == {b \in BookIds : books[b].authorId = a}

Put(table, id, row) == [i \in DOMAIN table \cup {id} |-> IF i = id THEN row ELSE table[i]]
(* a delete that leaves the row in place *)
RemoveNothing(table, id) == table

Remove(table, id) == [i \in DOMAIN table \ {id} |-> table[i]]

(* Outcome of a Prisma call: "ok", "P2025" (record not found), "P2003"     *)
(* (foreign key constraint failed), "P2002" (unique constraint failed on   *)
(* the primary key) or "P1001" (the database server cannot be reached).    *)

StoreCall(err) == IF db = "down" THEN "P1001" ELSE err

AuthorCreateErr(id) == IF id \in AuthorIds THEN "P2002" ELSE "ok"

AuthorUpdateErr(id, body) ==
    IF id \notin AuthorIds THEN "P2025"
    ELSE IF body.id # None /\ Get(body.id) # id /\ Get(body.id) \in AuthorIds THEN "P2002"
    ELSE "ok"

(* author.delete in a store without the books.authorId foreign key *)
AuthorDeleteErrNoFk(id) == IF id \notin AuthorIds THEN "P2025" ELSE "ok"

AuthorDeleteErr(id) ==
    IF id \notin AuthorIds THEN "P2025"
    ELSE IF BooksOf(id) # {} THEN "P2003"
    ELSE "ok"

(* book.create in a store that locks an author while a delete reads it *)
BookCreateErrLocked(data) ==
    IF data.id \in BookIds THEN "P2002"
    ELSE IF data.authorId \notin AuthorIds THEN "P2003"
    ELSE IF \E s \in DOMAIN pend : pend[s].op = "deleteAuthor" /\ pend[s].req.id = data.authorId
    THEN "P2003"
    ELSE "ok"

BookCreateErr(data) ==
    IF data.id \in BookIds THEN "P2002"
    ELSE IF data.authorId \notin AuthorIds THEN "P2003"
    ELSE "ok"

BookUpdateErr(id, body) ==
    IF id \notin BookIds THEN "P2025"
    ELSE IF body.id # None /\ Get(body.id) # id /\ Get(body.id) \in BookIds THEN "P2002"
    ELSE IF body.authorId # None /\ Get(body.authorId) \notin AuthorIds THEN "P2003"
    ELSE "ok"

(* a book.delete that accepts an id no row has *)
BookDeleteErrAnyId(id) == "ok"

BookDeleteErr(id) == IF id \in BookIds THEN "ok" ELSE "P2025"

PrismaMessage(err) ==
    IF err = "P2003" THEN "Foreign key constraint failed"
    ELSE IF err = "P2025" THEN "Record to delete does not exist"
    ELSE IF err = "P2002" THEN "Unique constraint failed"
    ELSE IF err = "P1001" THEN "Can't reach database server"
    ELSE "ok"

(* The value a write stores in a column the data may name: the value of    *)
(* the data if present, the column default otherwise.                      *)
OrElse(o, default) == IF o = None THEN default ELSE Get(o)

(* Records as the response schemas serialize them *)
AuthorOut(id, row) ==
    [id |-> id, name |-> row.name, createdAt |-> row.createdAt, updatedAt |-> row.updatedAt]

BookOut(id, row, author) ==
    [id |-> id, title |-> row.title, year |-> row.year, authorId |-> row.authorId,
     createdAt |-> row.createdAt, updatedAt |-> row.updatedAt,
     author |-> [id |-> row.authorId, name |-> author.name]]

----------------------------------------------------------------------------
(* Requests and replies *)

Slots == 1..MaxInflight

Idle == [op |-> "idle"]

(* A Prisma call as the handler sees it: method, argument, result, and     *)
(* whether the database server could be reached when it was made.          *)
Call(m, arg, res) == [m |-> m, arg |-> arg, res |-> res, up |-> db = "up"]

(* A reply of the handler of request req after the Prisma calls in calls. *)
ReplyWith(op, req, calls, status, msg, body) ==
    [op |-> op, req |-> req, calls |-> calls, done |-> TRUE,
     status |-> status, msg |-> msg, body |-> body]

Reply(op, req, calls, status, msg) == ReplyWith(op, req, calls, status, msg, <<>>)

(* A handler step that parks the request at its next await. *)
Parked(op, req, calls) ==
    [op |-> op, req |-> req, calls |-> calls, done |-> FALSE,
     status |-> 0, msg |-> "", body |-> <<>>]

(* The pages of the web client before any of them is mounted: the initial *)
(* values of their useState hooks.                                        *)

SearchTasks == 1..MaxSearches

NoTask == [stage |-> "none"]

NoResults == [books |-> <<>>, authors |-> <<>>]

InitBooksPage ==
    [stage |-> "unmounted", allBooks |-> <<>>, loading |-> TRUE, error |-> None,
     fetched |-> "none"]

(* latestReturned is history: what the search for the latest query has    *)
(* returned, if it has returned.                                          *)
InitSearchPage ==
    [mounted |-> FALSE, query |-> <<>>, tasks |-> [t \in SearchTasks |-> NoTask],
     searchResults |-> NoResults, loading |-> TRUE, error |-> None,
     latestReturned |-> NoResults]

InitModal ==
    [book |-> None,
     formData |-> [title |-> Some(<<>>), year |-> Some(0), authorId |-> Some(0)],
     authors |-> <<>>, isLoadingAuthors |-> FALSE, loadAuthors |-> None,
     request |-> None, isUpdating |-> FALSE, updateError |-> None,
     updateSuccess |-> FALSE]

InitUi == [books |-> InitBooksPage, search |-> InitSearchPage, modal |-> InitModal]

InitStore ==
    /\ authors = <<>>
    /\ books = <<>>
    /\ nextAuthorId = 1
    /\ nextBookId = 1
    /\ now = 1
    /\ pend = [s \in Slots |-> Idle]
    /\ db = "up"
    /\ deleted = {}
    /\ last = Reply("none", <<>>, <<>>, 0, "")
    /\ ui = InitUi

Init ==
    /\ InitStore
    /\ query = None

LowestIdle == CHOOSE s \in Slots : pend[s] = Idle /\ \A t \in Slots : pend[t] = Idle => s <= t

----------------------------------------------------------------------------
(* Author routes *)

(* POST /api/authors.  The handler has no catch block: an error of        *)
(* author.create reaches the default error handler, which answers 500.    *)
(* The sequence behind authors.id is advanced by every insert that takes  *)
(* its id from it, accepted or not.                                       *)
CreateAuthor(body) ==
    IF ~ValidAuthorBody(body)
    THEN /\ last' = Reply("createAuthor", [body |-> body], <<>>, 400, "Bad Request")
         /\ UNCHANGED <<authors, books, nextAuthorId, nextBookId, now, pend, query, db, deleted, ui>>
    ELSE LET id == OrElse(body.id, nextAuthorId)
             err == StoreCall(AuthorCreateErr(id))
             row == [name |-> Get(body.name),
                     createdAt |-> OrElse(body.createdAt, now),
                     updatedAt |-> OrElse(body.updatedAt, now)]
             calls == <<Call("author.create", body, err)>>
         IN  /\ nextAuthorId' = IF body.id = None /\ err # "P1001"
                                THEN nextAuthorId + 1 ELSE nextAuthorId
             /\ IF err = "ok"
                THEN /\ now < MaxClock
                     /\ authors' = Put(authors, id, row)
                     /\ now' = now + 1
                     /\ last' = ReplyWith("createAuthor", [body |-> body], calls, 201, "",
                                          AuthorOut(id, row))
                ELSE /\ authors' = authors
                     /\ now' = now
                     /\ last' = Reply("createAuthor", [body |-> body], calls,
                                      500, "Internal Server Error")
             /\ UNCHANGED <<books, nextBookId, pend, query, db, deleted, ui>>

(* The rows of books after authors.id changes from id to newId: the       *)
(* foreign key is ON UPDATE CASCADE.                                      *)
CascadeAuthorId(id, newId) ==
    [b \in BookIds |-> IF books[b].authorId = id
                       THEN [books[b] EXCEPT !.authorId = newId] ELSE books[b]]

(* PUT /api/authors/:id *)
UpdateAuthor(id, body) ==
    IF ~ValidAuthorBody(body)
    THEN /\ last' = Reply("updateAuthor", [id |-> id, body |-> body], <<>>, 400, "Bad Request")
         /\ UNCHANGED <<authors, books, nextAuthorId, nextBookId, now, pend, query, db, deleted, ui>>
    ELSE LET err == StoreCall(AuthorUpdateErr(id, body))
             calls == <<Call("author.update", [id |-> id, data |-> body], err)>>
             newId == OrElse(body.id, id)
             row == [name |-> Get(body.name),
                     createdAt |-> OrElse(body.createdAt, authors[id].createdAt),
                     updatedAt |-> OrElse(body.updatedAt, now)]
         IN  IF err = "ok"
             THEN /\ now < MaxClock
                  /\ authors' = Put(Remove(authors, id), newId, row)
                  /\ books' = CascadeAuthorId(id, newId)
                  /\ now' = now + 1
                  /\ last' = ReplyWith("updateAuthor", [id |-> id, body |-> body], calls,
                                       200, "", AuthorOut(newId, row))
                  /\ UNCHANGED <<nextAuthorId, nextBookId, pend, query, db, deleted, ui>>
             ELSE /\ last' = Reply("updateAuthor", [id |-> id, body |-> body], calls,
                                   404, "Author not found")
                  /\ UNCHANGED <<authors, books, nextAuthorId, nextBookId, now, pend, query, db, deleted, ui>>

(* GET /api/authors/:id.  No catch block: an error of findUnique is       *)
(* answered 500 by the default error handler.                             *)
GetAuthorHandler(req) ==
    LET id == req.id
        err == StoreCall("ok")
        calls == <<Call("author.findUnique", id, IF err = "ok" THEN id \in AuthorIds ELSE err)>>
    IN  /\ last' = IF err # "ok"
                   THEN Reply("getAuthor", req, calls, 500, "Internal Server Error")
                   ELSE Reply("getAuthor", req, calls,
                              IF id \in AuthorIds THEN 200 ELSE 404,
                              IF id \in AuthorIds THEN "" ELSE "Author not found")
        /\ UNCHANGED <<authors, books, nextAuthorId, nextBookId, now, pend, query, db, deleted, ui>>

GetAuthor(id) == GetAuthorHandler([id |-> id])

(* GET /api/authors/:id from the URL segment: the params schema            *)
(* { id: { type: 'integer' } } coerces and validates the segment, a        *)
(* failure is answered 400 before the handler runs, and the handler        *)
(* applies parseInt(id, 10) to what the schema let through.                *)
GetAuthorParam(param) ==
    LET c == CoerceInteger(param)
    IN  IF ~c.ok
        THEN /\ last' = Reply("getAuthor", [param |-> param], <<>>, 400, "Bad Request")
             /\ UNCHANGED <<authors, books, nextAuthorId, nextBookId, now, pend, query, db, deleted, ui>>
        ELSE GetAuthorHandler([id |-> ParseInt(c.value), param |-> param])

(* The rows of a findMany without where and orderBy, in the order of the   *)
(* primary key                                                             *)
RECURSIVE SortedSeq(_)
SortedSeq(S) ==
    IF S = {} THEN <<>>
    ELSE LET m == CHOOSE x \in S : \A y \in S : x <= y
         IN  <<m>> \o SortedSeq(S \ {m})

(* prisma.author.findMany({ include: { _count: { select: { books } } } }) *)
AuthorFindAll ==
    LET ids == SortedSeq(AuthorIds)
    IN  [i \in 1..Len(ids) |->
            [id |-> ids[i], name |-> authors[ids[i]].name,
             createdAt |-> authors[ids[i]].createdAt, updatedAt |-> authors[ids[i]].updatedAt,
             _count |-> [books |-> Cardinality(BooksOf(ids[i]))]]]

(* The reply serializer keeps of each item the properties that            *)
(* authorResponseSchema declares.                                         *)
SerializeAuthors(rows) == [i \in 1..Len(rows) |-> AuthorOut(rows[i].id, rows[i])]

(* GET /api/authors.  No catch block. *)
ListAuthorsHandler ==
    LET err == StoreCall("ok")
        rows == IF err = "ok" THEN AuthorFindAll ELSE <<>>
        calls == <<Call("author.findMany", <<>>, rows)>>
    IN  /\ last' = IF err # "ok"
                   THEN Reply("listAuthors", <<>>, calls, 500, "Internal Server Error")
                   ELSE ReplyWith("listAuthors", <<>>, calls, 200, "", SerializeAuthors(rows))
        /\ UNCHANGED <<authors, books, nextAuthorId, nextBookId, now, pend, query, db, deleted>>

ListAuthors == ListAuthorsHandler /\ UNCHANGED ui

(* The catch block of DELETE /api/authors/:id *)
IncludesCannotDelete(msg) == msg = "Cannot delete author with books. Delete the books first."

(* a catch block that does not look at the message *)
DeleteAuthorStatusAlways404(msg) == 404

DeleteAuthorStatus(msg) == IF IncludesCannotDelete(msg) THEN 400 ELSE 404

(* author.books.length > 1 *)
HasBooksOffByOne(bookIds) == Cardinality(bookIds) > 1

(* author.books.length > 0 *)

HasBooks(bookIds) == Cardinality(bookIds) > 0

(* DELETE /api/authors/:id up to the await of author.delete:               *)
(* AuthorService.delete reads the author with the ids of its books.        *)
DeleteAuthorCheck(id) ==
    LET found == id \in AuthorIds
        err == StoreCall("ok")
        calls == <<Call("author.findUnique", id,
                        IF err = "ok" THEN [found |-> found, books |-> BooksOf(id)] ELSE err)>>
    IN  /\ UNCHANGED <<authors, books, nextAuthorId, nextBookId, now, query, db, deleted, ui>>
        /\ IF err # "ok"
           THEN /\ last' = Reply("deleteAuthor", [id |-> id], calls,
                                 DeleteAuthorStatus(PrismaMessage(err)), PrismaMessage(err))
                /\ UNCHANGED pend
           ELSE IF ~found
           THEN /\ last' = Reply("deleteAuthor", [id |-> id], calls,
                                 DeleteAuthorStatus("Author not found"), "Author not found")
                /\ UNCHANGED pend
           ELSE IF HasBooks(BooksOf(id))
           THEN /\ last' = Reply("deleteAuthor", [id |-> id], calls,
                                 DeleteAuthorStatus("Cannot delete author with books. Delete the books first."),
                                 "Cannot delete author with books. Delete the books first.")
                /\ UNCHANGED pend
           ELSE /\ \E s \in Slots : pend[s] = Idle
                /\ pend' = [pend EXCEPT ![LowestIdle] =
                               [op |-> "deleteAuthor", req |-> [id |-> id], calls |-> calls]]
                /\ last' = Parked("deleteAuthor", [id |-> id], calls)

(* DELETE /api/authors/:id from the await of author.delete to the reply. *)
DeleteAuthorCommit(s) ==
    /\ pend[s].op = "deleteAuthor"
    /\ LET id == pend[s].req.id
           err == StoreCall(AuthorDeleteErr(id))
           calls == Append(pend[s].calls, Call("author.delete", id, err))
       IN  /\ pend' = [pend EXCEPT ![s] = Idle]
           /\ IF err = "ok"
              THEN /\ authors' = Remove(authors, id)
                   /\ deleted' = deleted \cup {id}
                   /\ last' = Reply("deleteAuthor", [id |-> id], calls,
                                    200, "Author deleted successfully")
              ELSE /\ authors' = authors
                   /\ deleted' = deleted
                   /\ last' = Reply("deleteAuthor", [id |-> id], calls,
                                    DeleteAuthorStatus(PrismaMessage(err)), PrismaMessage(err))
           /\ UNCHANGED <<books, nextAuthorId, nextBookId, now, query, db, ui>>

----------------------------------------------------------------------------
(* Book routes *)

(* a handler without the catch block: the default error handler answers *)
CreateBookStatusUncaught(err) == IF err = "ok" THEN 201 ELSE 500

(* The status of POST /api/books: the catch block answers 400 for every   *)
(* error of book.create.                                                  *)
CreateBookStatus(err) == IF err = "ok" THEN 201 ELSE 400

(* POST /api/books.  The sequence behind books.id is advanced by an       *)
(* insert that takes its id from it and is accepted or collides; the      *)
(* value an insert rejected for its foreign key consumes is not tracked,  *)
(* ids being compared for equality only.                                  *)
CreateBook(body) ==
    IF ~ValidBookBody(body)
    THEN /\ last' = Reply("createBook", [body |-> body], <<>>, 400, "Bad Request")
         /\ UNCHANGED <<authors, books, nextAuthorId, nextBookId, now, pend, query, db, deleted, ui>>
    ELSE LET data == [title |-> Get(body.title), authorId |-> Get(body.authorId),
                      year |-> Get(body.year), id |-> OrElse(body.id, nextBookId)]
             err == StoreCall(BookCreateErr(data))
             row == [title |-> data.title, year |-> data.year, authorId |-> data.authorId,
                     createdAt |-> OrElse(body.createdAt, now),
                     updatedAt |-> OrElse(body.updatedAt, now)]
             calls == <<Call("book.create", data, err)>>
         IN  /\ nextBookId' = IF body.id = None /\ err \in {"ok", "P2002"}
                              THEN nextBookId + 1 ELSE nextBookId
             /\ IF err = "ok"
                THEN /\ now < MaxClock
                     /\ books' = Put(books, data.id, row)
                     /\ now' = now + 1
                     /\ last' = ReplyWith("createBook", [body |-> body], calls,
                                          CreateBookStatus(err), "",
                                          BookOut(data.id, row, authors[row.authorId]))
                ELSE /\ books' = books
                     /\ now' = now
                     /\ last' = Reply("createBook", [body |-> body], calls,
                                      CreateBookStatus(err),
                                      "Failed to create book. Author might not exist.")
             /\ UNCHANGED <<authors, nextAuthorId, pend, query, db, deleted, ui>>

(* data of book.update that names no column *)
MergeNothing(old, body, t) == [old EXCEPT !.updatedAt = t]

(* The row book.update writes: the columns the data names take its values, *)
(* updatedAt is refreshed unless the data names it, the rest stays.        *)
Merge(old, body, t) ==
    [title |-> OrElse(body.title, old.title),
     year |-> OrElse(body.year, old.year),
     authorId |-> OrElse(body.authorId, old.authorId),
     createdAt |-> OrElse(body.createdAt, old.createdAt),
     updatedAt |-> OrElse(body.updatedAt, t)]

(* a catch block that reports a rejected authorId as a bad request *)
UpdateBookStatusFkAs400(err) ==
    IF err = "ok" THEN 200 ELSE IF err = "P2003" THEN 400 ELSE 404

(* The status of PUT /api/books/:id: the catch block answers 404 for      *)
(* every error of book.update.                                            *)
UpdateBookStatus(err) == IF err = "ok" THEN 200 ELSE 404

(* PUT /api/books/:id *)
UpdateBookHandler(id, body) ==
    IF ~ValidBookUpdateBody(body)
    THEN /\ last' = Reply("updateBook", [id |-> id, body |-> body], <<>>, 400, "Bad Request")
         /\ UNCHANGED <<authors, books, nextAuthorId, nextBookId, now, pend, query, db, deleted>>
    ELSE LET err == StoreCall(BookUpdateErr(id, body))
             calls == <<Call("book.update", [id |-> id, data |-> body], err)>>
             newId == OrElse(body.id, id)
             row == Merge(books[id], body, now)
         IN  IF err = "ok"
             THEN /\ now < MaxClock
                  /\ books' = Put(Remove(books, id), newId, row)
                  /\ now' = now + 1
                  /\ last' = ReplyWith("updateBook", [id |-> id, body |-> body], calls,
                                       UpdateBookStatus(err), "",
                                       BookOut(newId, row, authors[row.authorId]))
                  /\ UNCHANGED <<authors, nextAuthorId, nextBookId, pend, query, db, deleted>>
             ELSE /\ last' = Reply("updateBook", [id |-> id, body |-> body], calls,
                                   UpdateBookStatus(err),
                                   "Book not found or author does not exist")
                  /\ UNCHANGED <<authors, books, nextAuthorId, nextBookId, now, pend, query, db, deleted>>

UpdateBook(id, body) == UpdateBookHandler(id, body) /\ UNCHANGED ui

(* DELETE /api/books/:id.  The catch block answers 404 for every error of *)
(* book.delete.                                                           *)
DeleteBook(id) ==
    LET err == StoreCall(BookDeleteErr(id))
        calls == <<Call("book.delete", id, err)>>
    IN  /\ IF err = "ok"
           THEN /\ books' = Remove(books, id)
                /\ last' = Reply("deleteBook", [id |-> id], calls, 200,
                                 "Book deleted successfully")
           ELSE /\ books' = books
                /\ last' = Reply("deleteBook", [id |-> id], calls, 404, "Book not found")
        /\ UNCHANGED <<authors, nextAuthorId, nextBookId, now, pend, query, db, deleted, ui>>

(* a findUnique that does not join the author row *)
BookFindUniqueNoJoin(id) == BookOut(id, books[id], [name |-> <<>>])

(* prisma.book.findUnique({ where: { id }, include: { author: true } }) *)
BookFindUnique(id) == BookOut(id, books[id], authors[books[id].authorId])

(* GET /api/books/:id.  No catch block: an error of findUnique is         *)
(* answered 500 by the default error handler.                             *)
GetBook(id) ==
    LET err == StoreCall("ok")
        found == id \in BookIds
        calls == <<Call("book.findUnique", id, IF err = "ok" THEN found ELSE err)>>
    IN  /\ last' = IF err # "ok"
                   THEN Reply("getBook", [id |-> id], calls, 500, "Internal Server Error")
                   ELSE IF ~found
                   THEN Reply("getBook", [id |-> id], calls, 404, "Book not found")
                   ELSE ReplyWith("getBook", [id |-> id], calls, 200, "", BookFindUnique(id))
        /\ UNCHANGED <<authors, books, nextAuthorId, nextBookId, now, pend, query, db, deleted, ui>>

(* prisma.book.findMany({ include: { author: true } }) *)
BookFindAll ==
    LET ids == SortedSeq(BookIds)
    IN  [i \in 1..Len(ids) |-> BookFindUnique(ids[i])]

(* a list route that takes the rows out of the table *)
ListBooksTaking ==
    /\ last' = ReplyWith("listBooks", <<>>, <<Call("book.findMany", <<>>, BookFindAll)>>,
                         200, "", BookFindAll)
    /\ books' = <<>>
    /\ UNCHANGED <<authors, nextAuthorId, nextBookId, now, pend, query, db, deleted, ui>>

(* GET /api/books.  No catch block; bookResponseSchema declares every     *)
(* property of the joined rows but the author's timestamps.               *)
ListBooksHandler ==
    LET err == StoreCall("ok")
        rows == IF err = "ok" THEN BookFindAll ELSE <<>>
        calls == <<Call("book.findMany", <<>>, rows)>>
    IN  /\ last' = IF err # "ok"
                   THEN Reply("listBooks", <<>>, calls, 500, "Internal Server Error")
                   ELSE ReplyWith("listBooks", <<>>, calls, 200, "", rows)
        /\ UNCHANGED <<authors, books, nextAuthorId, nextBookId, now, pend, query, db, deleted>>

ListBooks == ListBooksHandler /\ UNCHANGED ui

----------------------------------------------------------------------------
(* Search route *)

Normalize(q) == ToLowerCase(Trim(q))

(* The year clause of the books query *)
(* a books query that never compares the year *)
YearClauseNone(nq) == None

YearClause(nq) == IF IsNaN(Number(nq)) THEN None ELSE Some(Number(nq))

BooksWhere(nq) ==
    [title |-> [contains |-> nq], year |-> YearClause(nq), author |-> [contains |-> nq]]

Joined(b) ==
    [id |-> b, title |-> books[b].title, year |-> books[b].year,
     authorId |-> books[b].authorId,
     author |-> [id |-> books[b].authorId, name |-> authors[books[b].authorId].name]]

(* prisma.book.findMany({ where: { OR: [...] }, include: { author: true } }): *)
(* the client rejects a year that is not an Int; an undefined year drops  *)
(* the clause.                                                             *)
BookFindManyErr(where) ==
    IF where.year # None /\ ~FitsInt(Get(where.year)) THEN "PrismaClientValidationError"
    ELSE StoreCall("ok")

BookFindMany(where) ==
    {Joined(b) : b \in {x \in BookIds :
        \/ ContainsInsensitive(books[x].title, where.title.contains)
        \/ (where.year # None /\ NumEquals(books[x].year, Get(where.year)))
        \/ ContainsInsensitive(authors[books[x].authorId].name, where.author.contains)}}

(* an authors query without the where clause *)
AuthorFindManyAll(nq) == {[id |-> a, name |-> authors[a].name] : a \in AuthorIds}

(* prisma.author.findMany({ where: { name: { contains, mode } } }) *)
AuthorFindMany(nq) ==
    {[id |-> a, name |-> authors[a].name] :
        a \in {x \in AuthorIds : ContainsInsensitive(authors[x].name, nq)}}

(* a search that catches the error of the books query and goes on *)
BooksQueryRejectsNever(err) == FALSE

(* await this.prisma.book.findMany(...) rejects: search has no catch      *)
(* block, so the rejection leaves search at once.                         *)
BooksQueryRejects(err) == err # "ok"

(* GET /api/search up to the await of author.findMany *)
SearchBooks(qp) ==
    /\ UNCHANGED <<authors, books, nextAuthorId, nextBookId, now, query, db, deleted, ui>>
    /\ IF qp = None
       THEN /\ last' = Reply("search", [q |-> qp], <<>>, 400, "Bad Request")
            /\ UNCHANGED pend
       ELSE LET normalizedQuery == Normalize(Get(qp))
                where == BooksWhere(normalizedQuery)
                err == BookFindManyErr(where)
                calls == <<Call("book.findMany", where,
                                IF err = "ok" THEN BookFindMany(where) ELSE {})>>
            IN  IF normalizedQuery = <<>>
                THEN /\ last' = ReplyWith("search", [q |-> qp], <<>>, 200, "",
                                          [books |-> {}, authors |-> {}])
                     /\ UNCHANGED pend
                ELSE IF BooksQueryRejects(err)
                THEN /\ last' = Reply("search", [q |-> qp], calls, 500, err)
                     /\ UNCHANGED pend
                ELSE /\ \E s \in Slots : pend[s] = Idle
                     /\ pend' = [pend EXCEPT ![LowestIdle] =
                                    [op |-> "search", req |-> [q |-> qp], calls |-> calls]]
                     /\ last' = Parked("search", [q |-> qp], calls)

(* GET /api/search from the await of author.findMany to the reply *)
SearchAuthors(s) ==
    /\ pend[s].op = "search"
    /\ LET normalizedQuery == Normalize(Get(pend[s].req.q))
           err == StoreCall("ok")
           res == IF err = "ok" THEN AuthorFindMany(normalizedQuery) ELSE {}
           calls == Append(pend[s].calls, Call("author.findMany", normalizedQuery, res))
       IN  /\ pend' = [pend EXCEPT ![s] = Idle]
           /\ last' = IF err = "ok"
                      THEN ReplyWith("search", pend[s].req, calls, 200, "",
                                     [books |-> calls[1].res, authors |-> res])
                      ELSE Reply("search", pend[s].req, calls, 500, err)
    /\ UNCHANGED <<authors, books, nextAuthorId, nextBookId, now, query, db, deleted, ui>>

----------------------------------------------------------------------------

Next ==
    \/ \E body \in CreateAuthorBodies : CreateAuthor(body)
    \/ \E id \in IdInputs, body \in UpdateAuthorBodies : UpdateAuthor(id, body)
    \/ \E id \in IdInputs : GetAuthor(id)
    \/ \E id \in IdInputs : DeleteAuthorCheck(id)
    \/ \E s \in Slots : DeleteAuthorCommit(s)
    \/ \E body \in CreateBookBodies : CreateBook(body)
    \/ \E id \in IdInputs, body \in UpdateBookBodies : UpdateBook(id, body)
    \/ \E id \in IdInputs : DeleteBook(id)
    \/ \E id \in IdInputs : GetBook(id)
    \/ ListAuthors
    \/ ListBooks
    \/ SearchBooks(query)

Spec == Init /\ [][Next]_vars

(* The catalog requests against a database server that may become         *)
(* unreachable and reachable again at any moment.                         *)

Outage ==
    /\ db = "up"
    /\ db' = "down"
    /\ UNCHANGED <<authors, books, nextAuthorId, nextBookId, now, pend, query, deleted, last, ui>>

Recovery ==
    /\ db = "down"
    /\ db' = "up"
    /\ UNCHANGED <<authors, books, nextAuthorId, nextBookId, now, pend, query, deleted, last, ui>>

NextFaults ==
    \/ Next
    \/ Outage
    \/ Recovery

SpecFaults == Init /\ [][NextFaults]_vars

(* The catalog requests with well-formed bodies, among them bodies that   *)
(* name the columns id, createdAt and updatedAt.                          *)

WellFormedAuthorBodies(bodies) == {body \in bodies : ValidAuthorBody(body)}

NextColumns ==
    \/ \E body \in WellFormedAuthorBodies(CreateAuthorBodies) \cup CreateAuthorColumnBodies :
          CreateAuthor(body)
    \/ \E id \in IdInputs,
          body \in WellFormedAuthorBodies(UpdateAuthorBodies) \cup UpdateAuthorColumnBodies :
          UpdateAuthor(id, body)
    \/ \E id \in IdInputs : GetAuthor(id)
    \/ \E id \in IdInputs : DeleteAuthorCheck(id)
    \/ \E s \in Slots : DeleteAuthorCommit(s)
    \/ \E body \in {BookFor(1)} \cup CreateBookColumnBodies : CreateBook(body)
    \/ \E id \in IdInputs,
          body \in {BookBody(None, None, Some(MaxYear), None, None, None)}
                      \cup UpdateBookColumnBodies :
          UpdateBook(id, body)
    \/ \E id \in IdInputs : DeleteBook(id)
    \/ \E id \in IdInputs : GetBook(id)

SpecColumns == Init /\ [][NextColumns]_vars

(* The get-by-id route of authors with the id taken from the URL, against *)
(* the stores that creating and deleting authors build.                   *)

NextParams ==
    \/ \E body \in WellFormedAuthorBodies(CreateAuthorBodies) : CreateAuthor(body)
    \/ \E id \in IdInputs : DeleteAuthorCheck(id)
    \/ \E s \in Slots : DeleteAuthorCommit(s)
    \/ \E param \in IdParams : GetAuthorParam(param)

SpecParams == Init /\ [][NextParams]_vars

(* The search route over every query of at most MaxQLen characters, run   *)
(* against the stores a few catalog requests build, in any interleaving.  *)

QueryParams == {None} \cup {Some(q) : q \in StringsUpTo(MaxQLen)}

SearchYear == MinYear + 111

SearchAuthorBodies == {AuthorBody(Some(<<"A", "1">>), None, None, None)}

SearchBookBodies ==
    {BookBody(Some(<<"a", ".">>), Some(1), Some(SearchYear), None, None, None)}

NextSearch ==
    \/ \E body \in SearchAuthorBodies : CreateAuthor(body)
    \/ \E body \in SearchBookBodies : CreateBook(body)
    \/ SearchBooks(query)
    \/ \E s \in Slots : SearchAuthors(s)

InitSearch ==
    /\ InitStore
    /\ query \in QueryParams

SpecSearch == InitSearch /\ [][NextSearch]_vars

(* Every operation of the three services, with well-formed requests, a    *)
(* search for "1" that interleaves with the catalog requests, and a       *)
(* database server that comes and goes.                                   *)

AllQuery == Some(<<"1">>)

AllRenameBodies == WellFormedAuthorBodies(CreateAuthorBodies)

AllBookUpdateBodies == {BookBody(None, None, Some(MaxYear), None, None, None)}

NextAll ==
    \/ \E body \in SearchAuthorBodies : CreateAuthor(body)
    \/ \E id \in IdInputs, body \in AllRenameBodies : UpdateAuthor(id, body)
    \/ \E id \in IdInputs : GetAuthor(id)
    \/ ListAuthors
    \/ \E id \in IdInputs : DeleteAuthorCheck(id)
    \/ \E s \in Slots : DeleteAuthorCommit(s)
    \/ \E body \in SearchBookBodies : CreateBook(body)
    \/ \E id \in IdInputs, body \in AllBookUpdateBodies : UpdateBook(id, body)
    \/ \E id \in IdInputs : DeleteBook(id)
    \/ \E id \in IdInputs : GetBook(id)
    \/ ListBooks
    \/ SearchBooks(query)
    \/ \E s \in Slots : SearchAuthors(s)
    \/ Outage
    \/ Recovery

InitAll ==
    /\ InitStore
    /\ query = AllQuery

SpecAll == InitAll /\ [][NextAll]_vars

----------------------------------------------------------------------------
(* The web client.  A fetch is a request to the server: the step in which *)
(* its response arrives is the step of the route's handler together with  *)
(* what the awaiting code does with the response; a fetch may also reject *)
(* (network error) without reaching the server.                           *)

(* Number.prototype.toString of a whole number that is not negative *)
RECURSIVE IntToString(_)
IntToString(n) ==
    IF n < 10 THEN <<DigitChars[n + 1]>>
    ELSE Append(IntToString(n \div 10), DigitChars[(n % 10) + 1])

RECURSIVE DigitPrefix(_)
DigitPrefix(s) ==
    IF s # <<>> /\ Head(s) \in Digits THEN <<Head(s)>> \o DigitPrefix(Tail(s)) ELSE <<>>

(* parseInt(s, 10) of a string: the value of its leading digits, None for *)
(* NaN                                                                    *)
ParseIntText(s) ==
    LET d == DigitPrefix(TrimStart(s))
    IN  IF d = <<>> THEN None ELSE Some(DigitsVal(d))

(* mapBookToBookInfo without the cover image and the random rating *)
MapBookToBookInfo(book) ==
    [id |-> IntToString(book.id), title |-> book.title, author |-> book.author.name,
     year |-> IntToString(book.year)]

(* What an api function reads of a response: response.ok and, if ok, the  *)
(* parsed body.                                                           *)
Response(reply) == [ok |-> reply.status >= 200 /\ reply.status <= 299, body |-> reply.body]

(* fetchAllBooks / fetchAllAuthors: the body of an ok response, [] for a  *)
(* response that is not ok; a rejected fetch is caught and gives [] too.  *)
FetchAllResult(response) == IF response.ok THEN response.body ELSE <<>>

(* The Books page *)

(* useEffect(() => { loadBooks() }, []) up to the await of fetchAllBooks *)
BooksMount ==
    /\ ui.books.stage = "unmounted"
    /\ ui' = [ui EXCEPT !.books.stage = "loading", !.books.loading = TRUE]
    /\ UNCHANGED server

(* loadBooks after fetchAllBooks returned books: the try block runs to    *)
(* its end and then the finally block; fetchAllBooks never rejects, so    *)
(* the catch block of loadBooks has nothing to catch.                     *)
BooksLoaded(books_, fetched) ==
    [ui EXCEPT !.books.stage = "done",
               !.books.allBooks = [i \in 1..Len(books_) |-> MapBookToBookInfo(books_[i])],
               !.books.error = None,
               !.books.loading = FALSE,
               !.books.fetched = fetched]

(* The response of GET /api/books arrives *)
BooksFetched ==
    /\ ui.books.stage = "loading"
    /\ ListBooksHandler
    /\ ui' = BooksLoaded(FetchAllResult(Response(last')),
                         IF Response(last').ok THEN "ok" ELSE "notOk")

(* fetch('/api/books') rejects *)
BooksFetchRejected ==
    /\ ui.books.stage = "loading"
    /\ ui' = BooksLoaded(<<>>, "rejected")
    /\ UNCHANGED server

NextBooksPage ==
    \/ \E body \in WellFormedAuthorBodies(CreateAuthorBodies) : CreateAuthor(body)
    \/ \E a \in IdInputs : CreateBook(BookFor(a))
    \/ Outage
    \/ Recovery
    \/ BooksMount
    \/ BooksFetched
    \/ BooksFetchRejected

SpecBooksPage == Init /\ [][NextBooksPage]_vars

(* The search results page *)

(* The queries of the URLs the page is navigated to *)
PageQueries == {<<>>, <<"a">>, <<"1">>}

(* search(query) once both lists are there: the filters of the api        *)
(* function over the fetched books and authors.                           *)
ClientSearch(q, books_, authors_) ==
    [books |-> SelectSeq(books_, LAMBDA b :
                  \/ Includes(ToLowerCase(b.title), ToLowerCase(q))
                  \/ Includes(ToLowerCase(b.author.name), ToLowerCase(q))
                  \/ Includes(IntToString(b.year), q)),
     authors |-> SelectSeq(authors_, LAMBDA a : Includes(ToLowerCase(a.name), ToLowerCase(q)))]

(* The calls in flight when the query changes are calls for an earlier    *)
(* query from then on (latest is history).                                *)
Earlier(tasks) ==
    [t \in DOMAIN tasks |->
        IF tasks[t] = NoTask THEN NoTask ELSE [tasks[t] EXCEPT !.latest = FALSE]]

LowestFreeTask ==
    CHOOSE t \in SearchTasks :
        ui.search.tasks[t] = NoTask /\ \A u \in SearchTasks : ui.search.tasks[u] = NoTask => t <= u

(* The page is rendered with a query it was not rendered with before: the *)
(* effect on [query] runs fetchSearchResults up to its first await.  The  *)
(* effect has no cleanup: the calls started for earlier queries go on.    *)
SearchNavigate(q) ==
    /\ ~ui.search.mounted \/ q # ui.search.query
    /\ IF q = <<>>
       THEN ui' = [ui EXCEPT !.search.mounted = TRUE,
                             !.search.query = q,
                             !.search.searchResults = NoResults,
                             !.search.loading = FALSE,
                             !.search.tasks = Earlier(ui.search.tasks),
                             !.search.latestReturned = NoResults]
       ELSE /\ \E t \in SearchTasks : ui.search.tasks[t] = NoTask
            /\ ui' = [ui EXCEPT !.search.mounted = TRUE,
                                !.search.query = q,
                                !.search.loading = TRUE,
                                !.search.tasks =
                                    [Earlier(ui.search.tasks) EXCEPT ![LowestFreeTask] =
                                        [stage |-> "books", query |-> q, latest |-> TRUE,
                                         booksResponse |-> [ok |-> FALSE, body |-> <<>>]]]]
    /\ UNCHANGED server

(* fetchSearchResults after await search(query) returned results: the try *)
(* block runs to its end and then the finally block.                      *)
SearchSettled(t, results) ==
    [ui EXCEPT !.search.tasks[t] = NoTask,
               !.search.searchResults = results,
               !.search.latestReturned =
                   IF ui.search.tasks[t].latest THEN results ELSE ui.search.latestReturned,
               !.search.error = None,
               !.search.loading = FALSE]

(* search: the response of GET /api/books arrives *)
SearchBooksFetched(t) ==
    /\ ui.search.tasks[t].stage = "books"
    /\ ListBooksHandler
    /\ ui' = [ui EXCEPT !.search.tasks[t].stage = "authors",
                        !.search.tasks[t].booksResponse = Response(last')]

(* search: the response of GET /api/authors arrives; a response that is   *)
(* not ok makes search throw into its own catch block, which returns      *)
(* empty collections.                                                     *)
SearchAuthorsFetched(t) ==
    /\ ui.search.tasks[t].stage = "authors"
    /\ ListAuthorsHandler
    /\ LET booksResponse == ui.search.tasks[t].booksResponse
           authorsResponse == Response(last')
       IN  ui' = SearchSettled(t,
                    IF ~booksResponse.ok \/ ~authorsResponse.ok THEN NoResults
                    ELSE ClientSearch(ui.search.tasks[t].query,
                                      booksResponse.body, authorsResponse.body))

(* search: one of its two fetches rejects *)
SearchFetchRejected(t) ==
    /\ ui.search.tasks[t].stage \in {"books", "authors"}
    /\ ui' = SearchSettled(t, NoResults)
    /\ UNCHANGED server

NextSearchPage ==
    \/ \E body \in WellFormedAuthorBodies(CreateAuthorBodies) : CreateAuthor(body)
    \/ CreateBook(BookFor(1))
    \/ \E q \in PageQueries : SearchNavigate(q)
    \/ \E t \in SearchTasks : SearchBooksFetched(t)
    \/ \E t \in SearchTasks : SearchAuthorsFetched(t)
    \/ \E t \in SearchTasks : SearchFetchRejected(t)

SpecSearchPage == Init /\ [][NextSearchPage]_vars

(* The book details dialog of the Books page *)

ModalTitles == {<<"b">>}

(* authorsList.find(a => a.name === name): the first author of the list   *)
(* with that name, None for undefined                                     *)
FindByName(authorsList, name) ==
    LET found == {i \in 1..Len(authorsList) : authorsList[i].name = name}
    IN  IF found = {} THEN None
        ELSE Some(authorsList[CHOOSE i \in found : \A j \in found : i <= j])

(* authors.find(a => a.id === id) *)
FindById(authorsList, id) ==
    LET found == {i \in 1..Len(authorsList) : Some(authorsList[i].id) = id}
    IN  IF found = {} THEN None
        ELSE Some(authorsList[CHOOSE i \in found : \A j \in found : i <= j])

(* The effect on [book]: the form is set to the title and the year of the *)
(* book, without an authorId, and loadAuthors starts.                     *)
ModalBookChanged(modal, book) ==
    [modal EXCEPT !.book = Some(book),
                  !.formData = [title |-> Some(book.title),
                                year |-> ParseIntText(book.year),
                                authorId |-> None],
                  !.isLoadingAuthors = TRUE,
                  !.loadAuthors = Some(book.author)]

(* handleBookClick on a card of the loaded page: the dialog opens on it *)
ModalOpen(i) ==
    /\ ui.books.stage = "done"
    /\ i \in 1..Len(ui.books.allBooks)
    /\ ui.modal.book # Some(ui.books.allBooks[i])
    /\ ui.modal.loadAuthors = None
    /\ ui.modal.request = None
    /\ ui' = [ui EXCEPT !.modal = ModalBookChanged(ui.modal, ui.books.allBooks[i])]
    /\ UNCHANGED server

(* loadAuthors after fetchAllAuthors returned authorsList *)
ModalAuthorsLoaded(authorsList) ==
    LET currentAuthor == FindByName(authorsList, Get(ui.modal.loadAuthors))
    IN  [ui EXCEPT !.modal.authors = authorsList,
                   !.modal.formData.authorId =
                       IF currentAuthor # None THEN Some(Get(currentAuthor).id)
                       ELSE ui.modal.formData.authorId,
                   !.modal.isLoadingAuthors = FALSE,
                   !.modal.loadAuthors = None]

(* The response of GET /api/authors arrives *)
ModalAuthorsFetched ==
    /\ ui.modal.loadAuthors # None
    /\ ListAuthorsHandler
    /\ ui' = ModalAuthorsLoaded(FetchAllResult(Response(last')))

(* fetch('/api/authors') rejects: fetchAllAuthors returns [] *)
ModalAuthorsRejected ==
    /\ ui.modal.loadAuthors # None
    /\ ui' = ModalAuthorsLoaded(<<>>)
    /\ UNCHANGED server

(* handleInputChange on the title field *)
ModalEditTitle(title) ==
    /\ ui.modal.book # None
    /\ ~ui.modal.isUpdating
    /\ ui.modal.formData.title # Some(title)
    /\ ui' = [ui EXCEPT !.modal.formData.title = Some(title)]
    /\ UNCHANGED server

(* What the browser requires of the form before it submits it: a title,   *)
(* a year from 1000 to the current year, and a selected author unless the *)
(* select is disabled.                                                    *)
FormValid(modal) ==
    /\ modal.formData.title \notin {None, Some(<<>>)}
    /\ modal.formData.year # None
    /\ Get(modal.formData.year) >= MinYear
    /\ Get(modal.formData.year) <= MaxYear
    /\ modal.isLoadingAuthors \/ modal.formData.authorId # None

(* handleSubmit up to the await of updateBook(parseInt(id, 10), formData) *)
ModalSubmit ==
    /\ ui.modal.book # None
    /\ ~ui.modal.isUpdating
    /\ FormValid(ui.modal)
    /\ ui' = [ui EXCEPT !.modal.isUpdating = TRUE,
                        !.modal.updateError = None,
                        !.modal.updateSuccess = FALSE,
                        !.modal.request =
                            Some([id |-> Get(ParseIntText(Get(ui.modal.book).id)),
                                  body |-> BookBody(ui.modal.formData.title,
                                                    ui.modal.formData.authorId,
                                                    ui.modal.formData.year,
                                                    None, None, None)])]
    /\ UNCHANGED server

(* { ...book, title, year, author } of handleSubmit *)
UpdatedBookInfo(book, body, selectedAuthor) ==
    [book EXCEPT !.title = IF Get(body.title) # <<>> THEN Get(body.title) ELSE book.title,
                 !.year = IF body.year # None /\ Get(body.year) # 0
                          THEN IntToString(Get(body.year)) ELSE book.year,
                 !.author = selectedAuthor.name]

(* handleBookUpdated of the Books page *)
HandleBookUpdated(allBooks, updatedBook) ==
    [i \in 1..Len(allBooks) |->
        IF allBooks[i].id = updatedBook.id THEN updatedBook ELSE allBooks[i]]

(* handleSubmit after updateBook returned: updated is whether it returned *)
(* a book.  setSelectedBook changes the book of the dialog, so the effect *)
(* on [book] runs again.                                                  *)
ModalSubmitted(updated) ==
    LET request == Get(ui.modal.request)
        selectedAuthor == FindById(ui.modal.authors, request.body.authorId)
        settled == [ui.modal EXCEPT !.isUpdating = FALSE,
                                    !.request = None,
                                    !.updateSuccess = updated,
                                    !.updateError = IF updated THEN None ELSE Some("failed")]
        updatedBookInfo == UpdatedBookInfo(Get(ui.modal.book), request.body,
                                           Get(selectedAuthor))
    IN  IF updated /\ selectedAuthor # None
        THEN [ui EXCEPT !.modal = ModalBookChanged(settled, updatedBookInfo),
                        !.books.allBooks = HandleBookUpdated(ui.books.allBooks, updatedBookInfo)]
        ELSE [ui EXCEPT !.modal = settled]

(* The response of PUT /api/books/:id arrives *)
ModalSubmitDone ==
    /\ ui.modal.request # None
    /\ UpdateBookHandler(Get(ui.modal.request).id, Get(ui.modal.request).body)
    /\ ui' = ModalSubmitted(Response(last').ok)

(* fetch of PUT /api/books/:id rejects: updateBook returns null *)
ModalSubmitRejected ==
    /\ ui.modal.request # None
    /\ ui' = ModalSubmitted(FALSE)
    /\ UNCHANGED server

NextBookModal ==
    \/ CreateAuthor(AuthorBody(Some(<<"A">>), None, None, None))
    \/ \E a \in IdInputs : CreateBook(BookFor(a))
    \/ BooksMount
    \/ BooksFetched
    \/ \E i \in 1..MaxClock : ModalOpen(i)
    \/ ModalAuthorsFetched
    \/ ModalAuthorsRejected
    \/ \E title \in ModalTitles : ModalEditTitle(title)
    \/ ModalSubmit
    \/ ModalSubmitDone
    \/ ModalSubmitRejected

SpecBookModal == Init /\ [][NextBookModal]_vars

----------------------------------------------------------------------------
(* Properties of the catalog requests (specification Spec) *)

CannotDeleteMsg == "Cannot delete author with books. Delete the books first."

(* C1: in every reachable state, whatever the interleaving of author and   *)
(* book create / update / delete requests, the authorId of every stored    *)
(* Book is the id of a stored Author.                                      *)
C1_NoDanglingAuthorId == \A b \in BookIds : books[b].authorId \in AuthorIds

(* A book exists and the store has just rejected moving a book to an       *)
(* author that does not exist.                                             *)
C1_Witness ==
    /\ BookIds # {}
    /\ last.op = "updateBook"
    /\ Len(last.calls) = 1
    /\ last.calls[1].res = "P2003"

(* C2: a delete request that finds its Author with one or more Books is    *)
(* answered 400 with 'Cannot delete author with books', changes neither    *)
(* table, and the Author is still stored afterwards.                       *)
C2_DeleteWithBooksRefused ==
    [][(/\ last'.op = "deleteAuthor"
        /\ Len(last'.calls) = 1
        /\ last'.req.id \in AuthorIds
        /\ BooksOf(last'.req.id) # {})
       => (/\ last'.done
           /\ last'.status = 400
           /\ last'.msg = CannotDeleteMsg
           /\ authors' = authors
           /\ books' = books
           /\ last'.req.id \in DOMAIN authors')]_vars

C2_Witness ==
    /\ last.op = "deleteAuthor"
    /\ last.status = 400
    /\ last.req.id \in AuthorIds
    /\ BooksOf(last.req.id) # {}

(* C3: when the storage delete of a delete request runs against an Author  *)
(* that exists and has zero Books, the request is answered 200 and exactly *)
(* that Author leaves the store; get-by-id answers 404 for every id that   *)
(* is not stored, and once a delete of an id was answered 200 (the id is   *)
(* then in deleted) no later request stores that id again, so every later  *)
(* get-by-id for that id is answered 404.                                  *)
C3_DeleteWithoutBooks ==
    [][/\ (last'.op = "deleteAuthor" /\ last'.status = 200) => last'.req.id \in deleted'
       /\ \A a \in deleted : a \in deleted' /\ a \notin DOMAIN authors'
       /\ (last'.op = "getAuthor" /\ last'.req.id \in deleted) => last'.status = 404
       /\ (/\ last'.op = "deleteAuthor"
           /\ Len(last'.calls) = 2
           /\ last'.req.id \in AuthorIds
           /\ BooksOf(last'.req.id) = {})
          => (/\ last'.status = 200
              /\ DOMAIN authors' = AuthorIds \ {last'.req.id}
              /\ \A a \in DOMAIN authors' : authors'[a] = authors[a]
              /\ books' = books)
       /\ (/\ last'.op = "deleteAuthor"
           /\ Len(last'.calls) = 1
           /\ last'.req.id \in AuthorIds
           /\ BooksOf(last'.req.id) = {})
          => ~last'.done
       /\ last'.op = "getAuthor"
          => (last'.status = IF last'.req.id \in AuthorIds THEN 200 ELSE 404)]_vars

(* C4: AuthorService.delete first reads the author with its book ids; the  *)
(* storage delete is issued only as a second call after a read that found  *)
(* the author with zero books; a missing author is answered 404 'Author    *)
(* not found', an author with books 400 'Cannot delete author with books', *)
(* and neither error path issues a delete call.                            *)
C4_CheckThenDelete ==
    [][last'.op = "deleteAuthor" =>
        LET c == last'.calls
            id == last'.req.id
        IN  /\ Len(c) \in {1, 2}
            /\ c[1].m = "author.findUnique"
            /\ c[1].arg = id
            /\ \A i \in 1..Len(c) : c[i].m = "author.delete" =>
                  (i = 2 /\ c[1].res.found /\ c[1].res.books = {})
            /\ Len(c) = 1 =>
                  /\ c[1].res.found = (id \in AuthorIds)
                  /\ c[1].res.books = BooksOf(id)
                  /\ id \notin AuthorIds =>
                        (last'.done /\ last'.status = 404 /\ last'.msg = "Author not found")
                  /\ (id \in AuthorIds /\ BooksOf(id) # {}) =>
                        (last'.done /\ last'.status = 400 /\ last'.msg = CannotDeleteMsg)
                  /\ (id \in AuthorIds /\ BooksOf(id) = {}) =>
                        (\E s \in Slots : pend'[s].op = "deleteAuthor" /\ pend'[s].calls = c)
            /\ Len(c) = 2 => c[2].m = "author.delete"]_vars

(* Both error replies and a completed check-then-delete have been seen:    *)
(* here the delete call was issued after a read with zero books.           *)
C4_Witness ==
    /\ last.op = "deleteAuthor"
    /\ Len(last.calls) = 2
    /\ last.calls[2].m = "author.delete"
    /\ last.calls[2].res = "ok"

(* C5: the check and the delete of AuthorService.delete are two storage    *)
(* calls with nothing held in between: while a delete request is parked    *)
(* after reading its author with zero books, a book creation for that      *)
(* author still succeeds, and the parked request still issues its delete.  *)
C5_CheckAndDeleteNotAtomic ==
    \A s \in Slots : pend[s].op = "deleteAuthor" =>
        /\ Len(pend[s].calls) = 1
        /\ pend[s].calls[1].res.books = {}
        /\ ENABLED DeleteAuthorCommit(s)
        /\ (now < MaxClock /\ pend[s].req.id \in AuthorIds)
              => ENABLED (CreateBook(BookFor(pend[s].req.id)) /\ last'.status = 201)

(* delete(a) read a with zero books, a book for a was then created, and    *)
(* the storage delete was issued against a, which now has a book.          *)
C5_Witness ==
    /\ last.op = "deleteAuthor"
    /\ Len(last.calls) = 2
    /\ last.calls[1].res.found
    /\ last.calls[1].res.books = {}
    /\ last.calls[2].m = "author.delete"
    /\ last.req.id \in AuthorIds
    /\ BooksOf(last.req.id) # {}

(* C6: a DELETE /api/authors/:id is answered 404 only when no author with  *)
(* that id exists, and a deletion refused because the author has books is  *)
(* answered 400.                                                           *)
C6_DeleteStatusCodes ==
    (last.op = "deleteAuthor" /\ last.done) =>
        /\ last.status = 404 => last.req.id \notin AuthorIds
        /\ (last.status # 200 /\ last.req.id \in AuthorIds /\ BooksOf(last.req.id) # {})
              => last.status = 400

(* C7: a POST /api/books whose authorId matches no stored Author is        *)
(* answered 400 and leaves both tables as they were.                       *)
C7_CreateBookUnknownAuthor ==
    [][(/\ last'.op = "createBook"
        /\ \A a \in last'.req.body.authorId : a \notin AuthorIds)
       => (/\ last'.done
           /\ last'.status = 400
           /\ authors' = authors
           /\ books' = books)]_vars

(* A well-formed book body naming a missing author reached the store and   *)
(* was rejected there.                                                     *)
C7_Witness ==
    /\ last.op = "createBook"
    /\ Len(last.calls) = 1
    /\ last.calls[1].res = "P2003"
    /\ last.status = 400
    /\ BookIds # {}

----------------------------------------------------------------------------
(* Properties of the search route (specification SpecSearch) *)

AllBlank(q) == \A i \in 1..Len(q) : q[i] = " "

(* C8: for a query that is empty or all whitespace, search replies 200     *)
(* with {books: [], authors: []} and issues no storage call, whatever the  *)
(* store contains; such a request is never parked at a storage call.       *)
C8_BlankQueryNoStorage ==
    /\ (last.op = "search" /\ last.req.q # None /\ AllBlank(Get(last.req.q)))
          => (/\ last.done
              /\ last.status = 200
              /\ last.calls = <<>>
              /\ last.body = [books |-> {}, authors |-> {}])
    /\ \A s \in Slots : pend[s].op = "search" => ~AllBlank(Get(pend[s].req.q))

(* A whitespace-only query was answered while the store held an Author and *)
(* a Book.                                                                 *)
C8_Witness ==
    /\ last.op = "search"
    /\ last.req.q # None
    /\ Len(Get(last.req.q)) >= 1
    /\ AllBlank(Get(last.req.q))
    /\ last.status = 200
    /\ AuthorIds # {}
    /\ BookIds # {}

HasNonDigit(s) == \E i \in 1..Len(s) : s[i] \notin Digits

(* C9: for every query whose trimmed form contains a character that is not *)
(* a decimal digit, the books query carries no number in its year clause.  *)
C9_NonNumericNoYear ==
    (/\ last.op = "search"
     /\ last.calls # <<>>
     /\ HasNonDigit(Trim(Get(last.req.q))))
       => last.calls[1].arg.year = None

RECURSIVE PlaceSum(_, _)
PlaceSum(s, i) ==
    IF i > Len(s) THEN 0
    ELSE DigitVal(s[i]) * Pow10(Len(s) - i) + PlaceSum(s, i + 1)

YearIs(y, nq) == ~IsNaN(Number(nq)) /\ NumEquals(y, Number(nq))

MatchingBooks(nq) ==
    {b \in BookIds :
        \/ Includes(ToLowerCase(books[b].title), nq)
        \/ YearIs(books[b].year, nq)
        \/ Includes(ToLowerCase(authors[books[b].authorId].name), nq)}

MatchingAuthors(nq) == {a \in AuthorIds : Includes(ToLowerCase(authors[a].name), nq)}

(* C11: a search whose normalized query is not empty never fails; its      *)
(* books query returns exactly the stored Books that match by title, year  *)
(* or author name, each with its joined Author, its authors query returns  *)
(* exactly the stored Authors that match by name, and the reply carries    *)
(* both results as the queries returned them.                              *)
C11_SearchExact ==
    (/\ last.op = "search"
     /\ last.req.q # None
     /\ Normalize(Get(last.req.q)) # <<>>)
       => LET nq == Normalize(Get(last.req.q))
              c == last.calls
          IN  /\ last.done => last.status = 200
              /\ Len(c) >= 1
              /\ (Len(c) = 1 /\ ~last.done) =>
                    /\ c[1].m = "book.findMany"
                    /\ {r.id : r \in c[1].res} = MatchingBooks(nq)
                    /\ \A r \in c[1].res :
                          /\ r.title = books[r.id].title
                          /\ r.year = books[r.id].year
                          /\ r.authorId = books[r.id].authorId
                          /\ r.author = [id |-> r.authorId, name |-> authors[r.authorId].name]
              /\ (last.done /\ last.status = 200) =>
                    /\ Len(c) = 2
                    /\ c[2].m = "author.findMany"
                    /\ {r.id : r \in c[2].res} = MatchingAuthors(nq)
                    /\ \A r \in c[2].res : r.name = authors[r.id].name
                    /\ last.body = [books |-> c[1].res, authors |-> c[2].res]

----------------------------------------------------------------------------
(* Properties of created and updated records *)

(* C12: an Author creation that returns a record returns the name of the   *)
(* request and an id handed out by the sequence of the store: the id is    *)
(* not the id of a stored Author, is not below the sequence (where every   *)
(* id handed out before lies), the sequence moves past it and never moves  *)
(* back; the row stored under that id has the name of the request.         *)
C12_CreateAuthorFreshId ==
    [][/\ nextAuthorId' >= nextAuthorId
       /\ (last'.op = "createAuthor" /\ last'.status = 201) =>
             LET r == last'.body
             IN  /\ ValidAuthorBody(last'.req.body)
                 /\ r.name = Get(last'.req.body.name)
                 /\ r.id \notin AuthorIds
                 /\ r.id >= nextAuthorId
                 /\ r.id < nextAuthorId'
                 /\ r.id \in DOMAIN authors'
                 /\ authors'[r.id].name = r.name
                 /\ \A a \in AuthorIds : a \in DOMAIN authors' /\ authors'[a] = authors[a]]_vars

(* C13: an update request, whatever its body carries, leaves the ids of    *)
(* the stored Authors and Books as they were, the record it returns has    *)
(* the id of the request, and no Book changes the Author it refers to      *)
(* unless the request is a Book update that supplies authorId.             *)
C13_IdImmutable ==
    [][last'.op \in {"updateAuthor", "updateBook"} =>
          /\ DOMAIN authors' = AuthorIds
          /\ DOMAIN books' = BookIds
          /\ last'.status = 200 => last'.body.id = last'.req.id
          /\ \A b \in BookIds :
                (last'.op = "updateAuthor" \/ last'.req.id # b \/ last'.req.body.authorId = None)
                   => books'[b].authorId = books[b].authorId]_vars

(* C14: with the clock of the store as time, a created record has the time *)
(* of its creation as createdAt; an update request leaves the createdAt of *)
(* every record as it was, and a successful update returns its record with *)
(* the createdAt it had and an updatedAt later than the one it had.        *)
C14_Timestamps ==
    [][/\ (last'.op = "createAuthor" /\ last'.status = 201) => last'.body.createdAt = now
       /\ (last'.op = "createBook" /\ last'.status = 201) => last'.body.createdAt = now
       /\ last'.op \in {"updateAuthor", "updateBook"} =>
             /\ \A a \in AuthorIds \cap DOMAIN authors' :
                   authors'[a].createdAt = authors[a].createdAt
             /\ \A b \in BookIds \cap DOMAIN books' :
                   books'[b].createdAt = books[b].createdAt
       /\ (last'.op = "updateAuthor" /\ last'.status = 200) =>
             /\ last'.body.createdAt = authors[last'.req.id].createdAt
             /\ last'.body.updatedAt > authors[last'.req.id].updatedAt
       /\ (last'.op = "updateBook" /\ last'.status = 200) =>
             /\ last'.body.createdAt = books[last'.req.id].createdAt
             /\ last'.body.updatedAt > books[last'.req.id].updatedAt]_vars

(* C15: a successful Book update whose body carries a subset S of title,   *)
(* authorId and year, and nothing else, gives the fields in S the values   *)
(* of the body and refreshes updatedAt; the other fields of the Book, its  *)
(* id, every other Book and every Author stay as they were.                *)
C15_PartialUpdateFrame ==
    [][(/\ last'.op = "updateBook"
        /\ last'.status = 200
        /\ DeclaredOnly(last'.req.body))
       => LET id == last'.req.id
              body == last'.req.body
              old == books[id]
              new == books'[id]
          IN  /\ DOMAIN books' = BookIds
              /\ \A b \in BookIds \ {id} : books'[b] = books[b]
              /\ authors' = authors
              /\ new.title = (IF body.title = None THEN old.title ELSE Get(body.title))
              /\ new.authorId = (IF body.authorId = None THEN old.authorId
                                 ELSE Get(body.authorId))
              /\ new.year = (IF body.year = None THEN old.year ELSE Get(body.year))
              /\ new.createdAt = old.createdAt
              /\ new.updatedAt > old.updatedAt]_vars

(* An update with only year has been answered 200: the Book has the new    *)
(* year, the title it was created with and a later updatedAt.              *)
C15_Witness ==
    /\ last.op = "updateBook"
    /\ last.status = 200
    /\ last.req.body = BookBody(None, None, Some(MaxYear), None, None, None)
    /\ books[last.req.id].year = MaxYear
    /\ books[last.req.id].title = <<"a">>
    /\ books[last.req.id].updatedAt > books[last.req.id].createdAt

(* The fields of a Book record the round trip compares *)
BookFields(r) ==
    [id |-> r.id, title |-> r.title, year |-> r.year, authorId |-> r.authorId,
     author |-> r.author]

(* C16: when a get-by-id for the id a Book creation returned is the very   *)
(* next request after that creation, it is answered 200 with a record that *)
(* has the id, title, year, authorId and joined author of the created one. *)
C16_CreateThenGet ==
    [][(/\ last.op = "createBook"
        /\ last.status = 201
        /\ last'.op = "getBook"
        /\ last'.req.id = last.body.id)
       => (/\ last'.status = 200
           /\ BookFields(last'.body) = BookFields(last.body))]_vars

(* A Book creation has just been answered 201 and the get-by-id for the    *)
(* returned id, issued now, returns the created title, year and author.    *)
C16_Witness ==
    /\ last.op = "createBook"
    /\ last.status = 201
    /\ last.body.title = Get(last.req.body.title)
    /\ last.body.author.name = authors[Get(last.req.body.authorId)].name
    /\ ENABLED (/\ GetBook(last.body.id)
                /\ last'.status = 200
                /\ BookFields(last'.body) = BookFields(last.body))

(* C17: for every stored Author a.  While a Book refers to a, a delete     *)
(* request for a is refused: it is answered 400 with the business-rule     *)
(* message and changes nothing.  Once no Book refers to a, a delete        *)
(* request for a passes its check, and its storage delete, run while still *)
(* no Book refers to a, is answered 200 and removes a.                     *)
C17_DeleteAfterBooksGone ==
    /\ \A a \in AuthorIds \cap IdInputs :
          IF BooksOf(a) # {}
          THEN /\ ENABLED (/\ DeleteAuthorCheck(a)
                           /\ last'.done
                           /\ last'.status = 400
                           /\ last'.msg = CannotDeleteMsg)
               /\ ~ENABLED (/\ DeleteAuthorCheck(a)
                            /\ ~(last'.done /\ last'.status = 400))
          ELSE (\E s \in Slots : pend[s] = Idle) =>
                  /\ ENABLED (DeleteAuthorCheck(a) /\ ~last'.done)
                  /\ ~ENABLED (DeleteAuthorCheck(a) /\ last'.done)
    /\ \A s \in Slots :
          (/\ pend[s].op = "deleteAuthor"
           /\ pend[s].req.id \in AuthorIds
           /\ BooksOf(pend[s].req.id) = {})
             => /\ ENABLED (/\ DeleteAuthorCommit(s)
                            /\ last'.status = 200
                            /\ pend[s].req.id \notin DOMAIN authors')
                /\ ~ENABLED (DeleteAuthorCommit(s) /\ last'.status # 200)

(* The scenario has run: Author 1 and Book 1 were created by the only two  *)
(* writes, Book 1 was deleted, and the delete of Author 1 has just been    *)
(* answered 200.                                                           *)
C17_Witness ==
    /\ last.op = "deleteAuthor"
    /\ last.status = 200
    /\ last.req.id = 1
    /\ nextAuthorId = 2
    /\ nextBookId = 2
    /\ now = 3
    /\ authors = <<>>
    /\ books = <<>>

----------------------------------------------------------------------------
(* Properties of the error replies *)

(* The request of event e fails the shape validation of its route. *)
Malformed(e) ==
    \/ /\ e.op \in {"createAuthor", "updateAuthor"}
       /\ (e.req.body.name = None \/ Get(e.req.body.name) = <<>>)
    \/ /\ e.op = "createBook"
       /\ \/ e.req.body.title = None
          \/ e.req.body.authorId = None
          \/ e.req.body.year = None
    \/ /\ e.op \in {"createBook", "updateBook"}
       /\ \/ \E y \in e.req.body.year : y < 1000 \/ y > 9999
          \/ e.req.body.title = Some(<<>>)
    \/ /\ e.op = "updateBook"
       /\ e.req.body.title = None
       /\ e.req.body.authorId = None
       /\ e.req.body.year = None
    \/ /\ e.op = "search"
       /\ e.req.q = None

(* C18: a request that fails shape validation is answered 400 at once,     *)
(* without a storage call, and leaves the tables, the sequences and the    *)
(* parked requests as they were.                                           *)
C18_MalformedRejected ==
    [][Malformed(last') =>
          /\ last'.done
          /\ last'.status = 400
          /\ last'.calls = <<>>
          /\ authors' = authors
          /\ books' = books
          /\ nextAuthorId' = nextAuthorId
          /\ nextBookId' = nextBookId
          /\ pend' = pend]_vars

(* A Book update with none of title, authorId and year, aimed at a stored  *)
(* Book, has been answered 400.                                            *)
C18_Witness ==
    /\ last.op = "updateBook"
    /\ last.req.body = BookBody(None, None, None, None, None, None)
    /\ last.req.id \in BookIds
    /\ last.status = 400
    /\ last.calls = <<>>

(* C19: a Book update with a well-formed body that targets an id with no   *)
(* stored Book, or that supplies an authorId with no stored Author, is     *)
(* answered 404 and leaves both tables as they were.                       *)
C19_UpdateBookNotFound ==
    [][(/\ last'.op = "updateBook"
        /\ ~Malformed(last')
        /\ \/ last'.req.id \notin BookIds
           \/ \E a \in last'.req.body.authorId : a \notin AuthorIds)
       => (/\ last'.done
           /\ last'.status = 404
           /\ authors' = authors
           /\ books' = books)]_vars

(* An update of a stored Book that names a missing Author has been         *)
(* answered 404, and the Book still refers to its Author.                  *)
C19_Witness ==
    /\ last.op = "updateBook"
    /\ last.status = 404
    /\ last.req.id \in BookIds
    /\ \E a \in last.req.body.authorId : a \notin AuthorIds
    /\ books[last.req.id].authorId \in AuthorIds

(* C20: a request whose storage call was made while the database server    *)
(* could not be reached is answered with a server error (5xx), never with  *)
(* 400 or 404.                                                             *)
C20_StorageFailureIs5xx ==
    (/\ last.done
     /\ last.calls # <<>>
     /\ ~last.calls[Len(last.calls)].up)
       => last.status >= 500

----------------------------------------------------------------------------
(* Properties of the get-by-id route with the id taken from the URL        *)
(* (specification SpecParams)                                              *)

(* C21: a get-author-by-id request whose id segment is not a string of     *)
(* decimal digits (it is not an integer, or it is negative) is answered    *)
(* 400 and never 404.                                                      *)
C21_BadIdIsCallerError ==
    (/\ last.op = "getAuthor"
     /\ "param" \in DOMAIN last.req
     /\ ~IsDigits(last.req.param))
       => last.status = 400

----------------------------------------------------------------------------
(* Properties of the list routes (specification Spec) *)

(* C22: the body of a 200 reply of GET /api/authors lists every stored     *)
(* Author exactly once, and each item carries a book count equal to the    *)
(* number of stored Books whose authorId is the item's id.                 *)
C22_ListAuthorsWithCounts ==
    (last.op = "listAuthors" /\ last.status = 200) =>
        /\ {last.body[i].id : i \in 1..Len(last.body)} = AuthorIds
        /\ Len(last.body) = Cardinality(AuthorIds)
        /\ \A i \in 1..Len(last.body) :
              /\ "_count" \in DOMAIN last.body[i]
              /\ last.body[i]._count.books = Cardinality(BooksOf(last.body[i].id))

(* C23: DELETE /api/books/:id issues the single storage call book.delete   *)
(* and no other; for the id of a stored Book it answers 200 and removes    *)
(* exactly that Book, every other Book and every Author staying as it      *)
(* was; for any other id it answers 404 and leaves both tables unchanged.  *)
C23_DeleteBook ==
    [][last'.op = "deleteBook" =>
        LET id == last'.req.id
            c == last'.calls
        IN  /\ Len(c) = 1
            /\ c[1].m = "book.delete"
            /\ c[1].arg = id
            /\ authors' = authors
            /\ IF id \in BookIds
               THEN /\ last'.status = 200
                    /\ DOMAIN books' = BookIds \ {id}
                    /\ \A b \in DOMAIN books' : books'[b] = books[b]
               ELSE /\ last'.status = 404
                    /\ books' = books]_vars

(* A Book was deleted while another Book stayed, and a delete of an id     *)
(* without a Book can follow.                                              *)
C23_Witness ==
    /\ last.op = "deleteBook"
    /\ last.status = 200
    /\ last.req.id \notin BookIds
    /\ BookIds # {}

----------------------------------------------------------------------------
(* Properties of the service operations under storage failures and        *)
(* interleaving (specification SpecAll)                                    *)

(* The Prisma calls whose logged result is their outcome code *)
WriteMethods ==
    {"author.create", "author.update", "author.delete",
     "book.create", "book.update", "book.delete"}

(* C24: a storage call that fails (the database cannot be reached, or a    *)
(* write is rejected) is the last call of its operation and the only call  *)
(* of its kind: the request is answered at once, not with a success        *)
(* status, no further storage call follows and no call is issued twice;    *)
(* AuthorService.delete rejects with the error of the failed call, and a   *)
(* search whose books query failed has issued no authors query.            *)
C24_FailurePropagates ==
    LET c == last.calls
    IN  /\ \A i \in 1..Len(c) : (c[i].m \in WriteMethods /\ c[i].res # "ok") =>
              /\ i = Len(c)
              /\ last.done
              /\ last.status \notin {200, 201}
              /\ last.op = "deleteAuthor" => last.msg = PrismaMessage(c[i].res)
        /\ \A i \in 1..Len(c) : ~c[i].up =>
              /\ i = Len(c)
              /\ last.done
              /\ last.status \notin {200, 201}
              /\ last.op = "deleteAuthor" => last.msg = PrismaMessage("P1001")
              /\ last.op = "search" => (i = 1 /\ c[1].m = "book.findMany")
                                          \/ (i = 2 /\ c[2].m = "author.findMany")
        /\ \A i, j \in 1..Len(c) : c[i].m = c[j].m => i = j

(* A search whose books query failed was answered after that one call. *)
C24_Witness ==
    /\ last.op = "search"
    /\ last.done
    /\ Len(last.calls) = 1
    /\ ~last.calls[1].up

----------------------------------------------------------------------------
(* Further properties of the catalog requests (specification Spec) *)

ReadOps == {"listAuthors", "getAuthor", "listBooks", "getBook", "search"}

(* C26: every step of a read operation (list authors, get author, list     *)
(* books, get book, either query of a search), whether its storage call    *)
(* succeeds or fails, leaves the Authors, the Books and the id sequences   *)
(* as they were.                                                           *)
C26_ReadsChangeNothing ==
    [][last'.op \in ReadOps =>
        /\ authors' = authors
        /\ books' = books
        /\ nextAuthorId' = nextAuthorId
        /\ nextBookId' = nextBookId]_vars

(* A search over a store with a Book failed at its second query. *)
C26_Witness ==
    /\ last.op = "search"
    /\ last.status = 500
    /\ Len(last.calls) = 2
    /\ BookIds # {}

(* C27: the two collections of a 200 reply of a search describe one store  *)
(* state: every returned Book whose author's name contains the normalized  *)
(* query has that Author, under the same name, among the returned authors. *)
C27_SearchOneSnapshot ==
    (last.op = "search" /\ last.status = 200) =>
        \A b \in last.body.books :
            ContainsInsensitive(b.author.name, Normalize(Get(last.req.q)))
                => [id |-> b.author.id, name |-> b.author.name] \in last.body.authors

(* C27, as the code has it: the books of a search reply are the Books that *)
(* matched when the books query ran, the authors are the Authors that      *)
(* matched when the authors query ran, and the store may change between    *)
(* the two; a returned Book that matched through its author's name has     *)
(* that Author among the returned authors whenever the Author is still     *)
(* stored under that name when the authors query runs.                     *)
C27_SearchTwoSnapshots ==
    [][/\ (last'.op = "search" /\ ~last'.done) =>
             LET nq == Normalize(Get(last'.req.q))
                 res == last'.calls[1].res
             IN  /\ {r.id : r \in res} = MatchingBooks(nq)
                 /\ \A r \in res : r.author = [id |-> books[r.id].authorId,
                                              name |-> authors[books[r.id].authorId].name]
       /\ (last'.op = "search" /\ last'.status = 200) =>
             LET nq == Normalize(Get(last'.req.q))
                 out == last'.body
             IN  /\ out.books = last'.calls[1].res
                 /\ {r.id : r \in out.authors} = MatchingAuthors(nq)
                 /\ \A r \in out.authors : r.name = authors[r.id].name
                 /\ \A b \in out.books :
                       (/\ Includes(ToLowerCase(b.author.name), nq)
                        /\ b.author.id \in AuthorIds
                        /\ authors[b.author.id].name = b.author.name)
                          => b.author \in out.authors]_vars

(* A search was answered with a Book whose Author, matched by name when    *)
(* the books query ran, is not among the returned authors.                 *)
C27_Witness ==
    /\ last.op = "search"
    /\ last.status = 200
    /\ \E b \in last.body.books :
          /\ Includes(ToLowerCase(b.author.name), Normalize(Get(last.req.q)))
          /\ b.author \notin last.body.authors

----------------------------------------------------------------------------
(* Properties of the web client *)

(* C30: when the request that loads the book list failed (the fetch        *)
(* rejected or the response was not ok), the Books page ends with loading  *)
(* false and its error message set.                                        *)
C30_LoadFailureShown ==
    (ui.books.stage = "done" /\ ui.books.fetched \in {"notOk", "rejected"})
       => (ui.books.loading = FALSE /\ ui.books.error # None)

(* C28: on the search results page, once no search is in flight, the       *)
(* displayed results are the ones the search for the latest query          *)
(* returned.                                                               *)
C28_LatestQueryShown ==
    (ui.search.mounted /\ \A t \in SearchTasks : ui.search.tasks[t] = NoTask)
       => ui.search.searchResults = ui.search.latestReturned

(* C29: a save in the book details dialog in which the author selection   *)
(* was not changed sends an update that carries no authorId or the        *)
(* book's present authorId, also when several authors share a name.       *)
C29_SaveKeepsAuthor ==
    ui.modal.request # None
       => LET request == Get(ui.modal.request)
          IN  request.id \in DOMAIN books
                 => request.body.authorId \in {None, Some(books[request.id].authorId)}

====
